---- MODULE Spec2Model ----
\* Hook lifecycle and callback dispatch of crates/weechat/src/hooks/commands.rs:
\* Command::new and CommandRun::new, their trampolines (c_hook_cb), and the
\* destruction of the returned guards, against a host that keeps a table of
\* registered hooks.
EXTENDS Integers, Sequences, FiniteSets, TLC

\* ---------------------------------------------------------------- bounds
MaxRegs == 2        \* registration calls made in one behaviour
MaxAddr == 2        \* heap addresses available to Box::new
MaxHooks == 2       \* distinct non-null identities the host can hand out
MaxCalls == 3       \* builder calls made on one CommandSettings

\* ------------------------------------------------------------- constants
NULL == 0
WEECHAT_RC_OK == 0
WEECHAT_RC_OK_EAT == 1
NUL == 0
Placeholder == 2
Bar == 124

Regs == 1..MaxRegs
Addrs == 1..MaxAddr
HookIds == 1..MaxHooks
Locs == {"here", "there"}
Kinds == {"Command", "CommandRun"}
Threads == {"main", "other"}
Callbacks == Regs        \* each call is given a callback object of its own
Buffers == {"buf1", "buf2"}
ReturnCodes == {"Ok", "OkEat"}
Chars == {NUL, 1}
Texts == {<<>>, <<1>>, <<NUL>>}
Argcs == {0, 1}
Strings == {<<1>>, <<Bar>>, <<NUL>>}   \* texts given to the builder

VARIABLES
    reg,        \* per registration call: inputs, locals, position, returned guard
    heap,       \* per address: the CommandHookData / CommandRunHookData stored there
    host,       \* per hook identity: what the host holds for it
    unhookLog,  \* the calls made to the host's unhook entry point, in order
    inv,        \* the trampoline invocation in progress
    last,       \* the last trampoline invocation that returned
    cur,        \* the constructor or destructor running on the main thread
    heapTop,    \* the highest address the allocator has handed out
    hostTop,    \* the highest identity the host has handed out
    settings,   \* the CommandSettings being built
    calls,      \* the builder calls made on it, in order
    passed      \* the strings Command::new passed to hook_command for it

hookVars == <<reg, heap, host, unhookLog, inv, last, cur, heapTop, hostTop>>
desc == <<settings, calls, passed>>
vars == <<reg, heap, host, unhookLog, inv, last, cur, heapTop, hostTop,
          settings, calls, passed>>

\* ------------------------------------------------------- source programs
\* The statements of Command::new in program order.
CommandNewLeakOnErr ==
    <<"check_thread", "lossy", "box_new", "leak", "hook_call",
      "is_null", "from_raw", "mk_hook">>
CommandNew ==
    <<"check_thread", "lossy", "box_new", "leak", "hook_call",
      "from_raw", "mk_hook", "is_null">>

\* The statements of CommandRun::new in program order; the Hook is built in
\* the else branch only.
CommandRunNewNoReclaim ==
    <<"check_thread", "box_new", "leak", "lossy", "hook_call",
      "is_null", "mk_hook">>
CommandRunNewLateCheck ==
    <<"box_new", "check_thread", "leak", "lossy", "hook_call",
      "from_raw", "is_null", "mk_hook">>
CommandRunNew ==
    <<"check_thread", "box_new", "leak", "lossy", "hook_call",
      "from_raw", "is_null", "mk_hook">>

Program(k) == IF k = "Command" THEN CommandNew ELSE CommandRunNew

\* The fields of the guards in declaration order (the order they are dropped).
CommandFieldsDataFirst == <<"_hook_data", "_hook">>
CommandFields == <<"_hook", "_hook_data">>
CommandRunFieldsNoHook == <<"_hook_data">>
CommandRunFields == <<"_hook", "_hook_data">>

Fields(k) == IF k = "Command" THEN CommandFields ELSE CommandRunFields

\* hook_ptr.is_null()
IsNullNever(p) == FALSE
is_null(p) == p = NULL

\* Hook { ptr: hook_ptr, weechat_ptr: weechat.ptr }
MkHookNull(p) == [built |-> TRUE, ptr |-> NULL]
MkHook(p) == [built |-> TRUE, ptr |-> p]

\* data_ref as *const _ as *const c_void, the opaque pointer given to the host
OpaquePointerNotTheBox(a) == NULL
OpaquePointer(a) == a

\* ptr::null_mut(), the data argument given to the host
DataArgument == NULL

\* The trampolines read their first argument, pointer, and ignore _data.
TrampolineReadsData(pointer, data) == data
TrampolineArg(pointer, data) == pointer

\* x as isize as i32: the cast keeps every value of the i32 range, and the
\* discriminants it is applied to are within it.
AsI32(n) == n

\* ReturnCode's discriminants
ReturnCodeValue(rc) == IF rc = "OkEat" THEN WEECHAT_RC_OK_EAT ELSE WEECHAT_RC_OK

\* CommandRun::new::c_hook_cb: cb.callback(..) as isize as i32
CommandRunTrampolineFixed(rc) == WEECHAT_RC_OK
CommandRunTrampolineRet(rc) == AsI32(ReturnCodeValue(rc))

\* Command::new::c_hook_cb: WEECHAT_RC_OK
CommandTrampolineByArgc(buffer, argc) ==
    IF argc = 0 THEN WEECHAT_RC_OK_EAT ELSE WEECHAT_RC_OK
CommandTrampolineRet(buffer, argc) == WEECHAT_RC_OK

\* LossyCString::new: a NUL the C string cannot hold is substituted
LossyCString(s) == [i \in DOMAIN s |-> IF s[i] = NUL THEN Placeholder ELSE s[i]]

\* Weechat::check_thread panics off the main Weechat thread
check_thread_panics(t) == t # "main"

\* ------------------------------------------------------- CommandSettings
\* CommandSettings::new(name): the other fields take their defaults
SettingsNew(name) ==
    [name |-> name, description |-> <<>>, arguments |-> <<>>,
     argument_descriptoin |-> <<>>, completion |-> <<>>]

\* CommandSettings::description
description(s, d) == [s EXCEPT !.description = d]

\* CommandSettings::add_argument: self.arguments.push(argument)
add_argument(s, a) == [s EXCEPT !.arguments = Append(@, a)]

\* CommandSettings::arguments_description
arguments_description(s, d) == [s EXCEPT !.argument_descriptoin = d]

\* CommandSettings::add_completion: self.completion.push(completion)
AddCompletionToArguments(s, c) == [s EXCEPT !.arguments = Append(@, c)]
add_completion(s, c) == [s EXCEPT !.completion = Append(@, c)]

\* The separator of command_settings.arguments.join("||")
Separator == <<Bar, Bar>>

\* Vec<String>::join(sep)
RECURSIVE Join(_, _)
Join(list, sep) ==
    IF list = <<>> THEN <<>>
    ELSE IF Len(list) = 1 THEN list[1]
    ELSE list[1] \o sep \o Join(Tail(list), sep)

\* The five strings Command::new converts and passes to hook_command
HostDescriptor(s) ==
    [given |-> TRUE,
     name |-> LossyCString(s.name),
     description |-> LossyCString(s.description),
     args |-> LossyCString(Join(s.arguments, Separator)),
     args_description |-> LossyCString(s.argument_descriptoin),
     completion |-> LossyCString(Join(s.completion, Separator))]

\* ------------------------------------------------------------ empty values
NoDescriptor ==
    [given |-> FALSE, name |-> <<>>, description |-> <<>>, args |-> <<>>,
     args_description |-> <<>>, completion |-> <<>>]
NoState == [reg |-> 0, callback |-> 0]
NoHook == [reg |-> 0, pointer |-> NULL, data |-> NULL, kind |-> "none"]
NoHookStruct == [built |-> FALSE, ptr |-> NULL]
NoInv == [hook |-> 0, reg |-> 0, kind |-> "none", pointer |-> NULL,
          callback |-> 0, buffer |-> "none", argc |-> 0]
NoLast == [kind |-> "none", cbret |-> "none", code |-> 0]
NoReg == [phase |-> "new", kind |-> "none", callback |-> 0,
          thread |-> "none", pcIdx |-> 0, text |-> <<>>, cstr |-> <<>>,
          data |-> "none", addr |-> NULL, called |-> FALSE, hook_ptr |-> NULL,
          hook |-> NoHookStruct, loc |-> "none", allocs |-> 0, frees |-> 0]

Init ==
    /\ reg = [r \in Regs |-> NoReg]
    /\ heap = [a \in Addrs |-> NoState]
    /\ host = [h \in HookIds |-> NoHook]
    /\ unhookLog = <<>>
    /\ inv = NoInv
    /\ last = NoLast
    /\ cur = 0
    /\ heapTop = 0
    /\ hostTop = 0
    /\ settings = SettingsNew(<<>>)
    /\ calls = <<>>
    /\ passed = NoDescriptor

\* ------------------------------------------------------------- helpers
\* The statement call r is about to execute.
Running(r) ==
    /\ reg[r].phase = "running"
    /\ \/ reg[r].thread = "other"
       \/ cur = r
AtStmt(r, s) ==
    /\ Running(r)
    /\ reg[r].pcIdx <= Len(Program(reg[r].kind))
    /\ Program(reg[r].kind)[reg[r].pcIdx] = s

\* unhook(ptr) as the host sees it: the call is recorded, and a registered
\* identity is removed from the host's table.
UnhookEntry(r, p) ==
    [by |-> r, ptr |-> p,
     target |-> IF p \in HookIds THEN host[p].reg ELSE 0]
HostAfterUnhook(p) ==
    IF p \in HookIds THEN [host EXCEPT ![p] = NoHook] ELSE host

\* Dropping the Box that owns the state at address a.
HeapAfterFree(a) ==
    IF a \in Addrs THEN [heap EXCEPT ![a] = NoState] ELSE heap

\* Leaving the constructor: the main thread is free again.
CurAfter(r) == IF cur = r THEN 0 ELSE cur

\* &mut *(pointer as *mut ..HookData): the trampoline borrows the state at
\* the address, so nothing is dropped when it returns.
HeapAfterTrampolineOwning(a) == HeapAfterFree(a)
HeapAfterTrampoline(a) == heap

\* A call that has ended, or a guard that is gone: its locals and fields no
\* longer exist. What it did to the callback state is kept.
Finished(r) ==
    [NoReg EXCEPT !.thread = reg[r].thread, !.called = reg[r].called,
                  !.data = reg[r].data, !.addr = IF reg[r].data = "leaked"
                                                 THEN reg[r].addr ELSE NULL,
                  !.allocs = reg[r].allocs, !.frees = reg[r].frees]

\* A Box local of the constructor owns the state (data or hook_data).
OwnsBox(r) == reg[r].data \in {"data", "hook_data"}

\* ------------------------------------------------- Command::new / CommandRun::new
\* A call of Command::new or CommandRun::new is entered; the callback is
\* moved into it.
Call(r, k, t, x) ==
    /\ reg[r].phase = "new"
    /\ IF r = 1 THEN TRUE ELSE reg[r - 1].phase # "new"
    /\ t = "main" => cur = 0
    /\ reg' = [reg EXCEPT ![r] = [@ EXCEPT !.phase = "running", !.kind = k,
                                            !.callback = r, !.thread = t,
                                            !.text = x, !.pcIdx = 1]]
    /\ cur' = IF t = "main" THEN r ELSE cur
    /\ UNCHANGED <<heap, host, unhookLog, inv, last, heapTop, hostTop>>
    /\ UNCHANGED desc

\* Weechat::check_thread(): a panic unwinds the constructor, dropping the
\* locals that exist.
CheckThread(r) ==
    /\ AtStmt(r, "check_thread")
    /\ IF check_thread_panics(reg[r].thread)
       THEN /\ reg' = [reg EXCEPT ![r] =
                         [Finished(r) EXCEPT
                                   !.phase = "panicked",
                                   !.data = IF OwnsBox(r) THEN "none" ELSE @,
                                   !.frees = IF OwnsBox(r) THEN @ + 1 ELSE @]]
            /\ heap' = IF OwnsBox(r) THEN HeapAfterFree(reg[r].addr) ELSE heap
            /\ unhookLog' = IF reg[r].hook.built
                            THEN Append(unhookLog, UnhookEntry(r, reg[r].hook.ptr))
                            ELSE unhookLog
            /\ host' = IF reg[r].hook.built
                       THEN HostAfterUnhook(reg[r].hook.ptr) ELSE host
            /\ cur' = CurAfter(r)
       ELSE /\ reg' = [reg EXCEPT ![r].pcIdx = @ + 1]
            /\ UNCHANGED <<heap, host, unhookLog, cur, heapTop, hostTop>>
    /\ UNCHANGED <<inv, last, heapTop, hostTop>>
    /\ UNCHANGED desc

\* LossyCString::new(..) of the text given to the host.
Lossy(r) ==
    /\ AtStmt(r, "lossy")
    /\ reg' = [reg EXCEPT ![r] = [@ EXCEPT !.cstr = LossyCString(reg[r].text),
                                            !.pcIdx = @ + 1]]
    /\ UNCHANGED <<heap, host, unhookLog, inv, last, cur, heapTop, hostTop>>
    /\ UNCHANGED desc

\* let data = Box::new(..HookData { callback: Box::new(callback), .. }): the
\* allocator hands out an address that is free, one it has handed out before
\* or the next one it never used (addresses are taken up to renaming).
BoxNew(r, a) ==
    /\ AtStmt(r, "box_new")
    /\ heap[a] = NoState
    /\ a <= heapTop + 1
    /\ heap' = [heap EXCEPT ![a] = [reg |-> r, callback |-> reg[r].callback]]
    /\ heapTop' = IF a > heapTop THEN a ELSE heapTop
    /\ reg' = [reg EXCEPT ![r] = [@ EXCEPT !.data = "data", !.addr = a,
                                            !.allocs = @ + 1, !.pcIdx = @ + 1]]
    /\ UNCHANGED <<host, unhookLog, inv, last, cur, hostTop>>
    /\ UNCHANGED desc

\* let data_ref = Box::leak(data)
Leak(r) ==
    /\ AtStmt(r, "leak")
    /\ reg[r].data = "data"
    /\ reg' = [reg EXCEPT ![r] = [@ EXCEPT !.data = "leaked", !.pcIdx = @ + 1]]
    /\ UNCHANGED <<heap, host, unhookLog, inv, last, cur, heapTop, hostTop>>
    /\ UNCHANGED desc

\* hook_command(..) / hook_command_run(..): the host returns NULL or an
\* identity it has not in use (one it handed out before, or the next one it
\* never used), and keeps the trampoline's arguments.
HookCall(r, p) ==
    /\ AtStmt(r, "hook_call")
    /\ p \in HookIds => host[p] = NoHook /\ p <= hostTop + 1
    /\ hostTop' = IF p > hostTop THEN p ELSE hostTop
    /\ host' = IF p \in HookIds
               THEN [host EXCEPT ![p] =
                       [reg |-> r, pointer |-> OpaquePointer(reg[r].addr),
                        data |-> DataArgument, kind |-> reg[r].kind]]
               ELSE host
    /\ reg' = [reg EXCEPT ![r] = [@ EXCEPT !.called = TRUE, !.hook_ptr = p,
                                            !.pcIdx = @ + 1]]
    /\ UNCHANGED <<heap, unhookLog, inv, last, cur, heapTop>>
    /\ UNCHANGED desc

\* let hook_data = unsafe { Box::from_raw(data_ref) }
FromRaw(r) ==
    /\ AtStmt(r, "from_raw")
    /\ reg[r].data = "leaked"
    /\ reg' = [reg EXCEPT ![r] = [@ EXCEPT !.data = "hook_data", !.pcIdx = @ + 1]]
    /\ UNCHANGED <<heap, host, unhookLog, inv, last, cur, heapTop, hostTop>>
    /\ UNCHANGED desc

\* let hook = Hook { ptr: hook_ptr, weechat_ptr: weechat.ptr }
MkHookStmt(r) ==
    /\ AtStmt(r, "mk_hook")
    /\ reg' = [reg EXCEPT ![r] = [@ EXCEPT !.hook = MkHook(reg[r].hook_ptr),
                                            !.pcIdx = @ + 1]]
    /\ UNCHANGED <<heap, host, unhookLog, inv, last, cur, heapTop, hostTop>>
    /\ UNCHANGED desc

\* if hook_ptr.is_null() { Err(()) }: the locals go out of scope in reverse
\* order of declaration, hook (when it was built) before hook_data.
ReturnErr(r) ==
    /\ AtStmt(r, "is_null")
    /\ is_null(reg[r].hook_ptr)
    /\ unhookLog' = IF reg[r].hook.built
                    THEN Append(unhookLog, UnhookEntry(r, reg[r].hook.ptr))
                    ELSE unhookLog
    /\ host' = IF reg[r].hook.built THEN HostAfterUnhook(reg[r].hook.ptr) ELSE host
    /\ heap' = IF OwnsBox(r) THEN HeapAfterFree(reg[r].addr) ELSE heap
    /\ reg' = [reg EXCEPT ![r] =
                 [Finished(r) EXCEPT
                           !.phase = "err",
                           !.hook_ptr = reg[r].hook_ptr,
                           !.data = IF OwnsBox(r) THEN "none" ELSE @,
                           !.frees = IF OwnsBox(r) THEN @ + 1 ELSE @]]
    /\ cur' = CurAfter(r)
    /\ UNCHANGED <<inv, last, heapTop, hostTop>>
    /\ UNCHANGED desc

\* .. else: the constructor goes on.
NotNull(r) ==
    /\ AtStmt(r, "is_null")
    /\ ~is_null(reg[r].hook_ptr)
    /\ reg' = [reg EXCEPT ![r].pcIdx = @ + 1]
    /\ UNCHANGED <<heap, host, unhookLog, inv, last, cur, heapTop, hostTop>>
    /\ UNCHANGED desc

\* Ok(Command { _hook: hook, _hook_data: hook_data }): both are moved into
\* the guard, which the caller puts somewhere.
ReturnOk(r, l) ==
    /\ Running(r)
    /\ reg[r].pcIdx > Len(Program(reg[r].kind))
    /\ reg[r].hook.built
    /\ reg' = [reg EXCEPT ![r] =
                 [@ EXCEPT !.phase = "ok",
                           !.data = IF @ = "hook_data" THEN "guard" ELSE @,
                           !.loc = l, !.text = <<>>, !.cstr = <<>>]]
    /\ cur' = CurAfter(r)
    /\ UNCHANGED <<heap, host, unhookLog, inv, last, heapTop, hostTop>>
    /\ UNCHANGED desc

\* ------------------------------------------------------------ the guard
\* The guard is moved: the struct is copied to another place, the Box keeps
\* pointing at the same heap address.
Move(r, l) ==
    /\ reg[r].phase = "ok"
    /\ cur = 0
    /\ l # reg[r].loc
    /\ reg' = [reg EXCEPT ![r].loc = l]
    /\ UNCHANGED <<heap, host, unhookLog, inv, last, cur, heapTop, hostTop>>
    /\ UNCHANGED desc

\* The guard goes out of scope, at top level or inside a user callback.
DropBegin(r) ==
    /\ reg[r].phase = "ok"
    /\ cur = 0
    /\ reg' = [reg EXCEPT ![r] = [@ EXCEPT !.phase = "dropping", !.pcIdx = 1]]
    /\ cur' = r
    /\ UNCHANGED <<heap, host, unhookLog, inv, last, heapTop, hostTop>>
    /\ UNCHANGED desc

Dropping(r, f) ==
    /\ reg[r].phase = "dropping"
    /\ cur = r
    /\ reg[r].pcIdx <= Len(Fields(reg[r].kind))
    /\ Fields(reg[r].kind)[reg[r].pcIdx] = f

\* Hook::drop: unhook(self.ptr)
DropHook(r) ==
    /\ Dropping(r, "_hook")
    /\ unhookLog' = Append(unhookLog, UnhookEntry(r, reg[r].hook.ptr))
    /\ host' = HostAfterUnhook(reg[r].hook.ptr)
    /\ reg' = [reg EXCEPT ![r] = [@ EXCEPT !.hook = NoHookStruct, !.pcIdx = @ + 1]]
    /\ UNCHANGED <<heap, inv, last, cur, heapTop, hostTop>>
    /\ UNCHANGED desc

\* Box<..HookData>::drop: the callback state is freed
DropHookData(r) ==
    /\ Dropping(r, "_hook_data")
    /\ heap' = IF reg[r].data = "guard" THEN HeapAfterFree(reg[r].addr) ELSE heap
    /\ reg' = [reg EXCEPT ![r] =
                 [@ EXCEPT !.data = IF @ = "guard" THEN "none" ELSE @,
                           !.frees = IF reg[r].data = "guard" THEN @ + 1 ELSE @,
                           !.pcIdx = @ + 1]]
    /\ UNCHANGED <<host, unhookLog, inv, last, cur, heapTop, hostTop>>
    /\ UNCHANGED desc

DropEnd(r) ==
    /\ reg[r].phase = "dropping"
    /\ cur = r
    /\ reg[r].pcIdx > Len(Fields(reg[r].kind))
    /\ reg' = [reg EXCEPT ![r] = [Finished(r) EXCEPT !.phase = "dropped"]]
    /\ cur' = 0
    /\ UNCHANGED <<heap, host, unhookLog, inv, last, heapTop, hostTop>>
    /\ UNCHANGED desc

\* ------------------------------------------------------- the trampolines
\* The state a trampoline finds at the address it dereferences; reading an
\* address that holds no state is undefined, any callback may be found.
CallbackAt(a) ==
    IF a \in Addrs /\ heap[a] # NoState THEN {heap[a].callback} ELSE Callbacks

\* The host calls the trampoline of a registered hook with the arguments it
\* kept: c_hook_cb dereferences the pointer and calls the user callback.
InvokeBegin(h, b, n) ==
    /\ host[h] # NoHook
    /\ inv = NoInv
    /\ cur = 0
    /\ host[h].kind = "CommandRun" => n = 0
    /\ \E c \in CallbackAt(TrampolineArg(host[h].pointer, host[h].data)) :
         inv' = [hook |-> h, reg |-> host[h].reg, kind |-> host[h].kind,
                 pointer |-> TrampolineArg(host[h].pointer, host[h].data),
                 callback |-> c, buffer |-> b, argc |-> n]
    /\ UNCHANGED <<reg, heap, host, unhookLog, last, cur, heapTop, hostTop>>
    /\ UNCHANGED desc

\* The user callback returns and the trampoline returns its code to the host.
InvokeEnd(rc) ==
    /\ inv # NoInv
    /\ cur = 0
    /\ inv.kind = "Command" => rc = "Ok"
    /\ last' = [kind |-> inv.kind, cbret |-> rc,
                code |-> IF inv.kind = "Command"
                         THEN CommandTrampolineRet(inv.buffer, inv.argc)
                         ELSE CommandRunTrampolineRet(rc)]
    /\ inv' = NoInv
    /\ heap' = HeapAfterTrampoline(inv.pointer)
    /\ UNCHANGED <<reg, host, unhookLog, cur, heapTop, hostTop>>
    /\ UNCHANGED desc

\* ---------------------------------------------------------- specification
Next ==
    \/ \E r \in Regs, k \in Kinds, t \in Threads, x \in Texts :
         Call(r, k, t, x)
    \/ \E r \in Regs : CheckThread(r)
    \/ \E r \in Regs : Lossy(r)
    \/ \E r \in Regs, a \in Addrs : BoxNew(r, a)
    \/ \E r \in Regs : Leak(r)
    \/ \E r \in Regs, p \in HookIds \cup {NULL} : HookCall(r, p)
    \/ \E r \in Regs : FromRaw(r)
    \/ \E r \in Regs : MkHookStmt(r)
    \/ \E r \in Regs : ReturnErr(r)
    \/ \E r \in Regs : NotNull(r)
    \/ \E r \in Regs, l \in Locs : ReturnOk(r, l)
    \/ \E r \in Regs, l \in Locs : Move(r, l)
    \/ \E r \in Regs : DropBegin(r)
    \/ \E r \in Regs : DropHook(r)
    \/ \E r \in Regs : DropHookData(r)
    \/ \E r \in Regs : DropEnd(r)
    \/ \E h \in HookIds, b \in Buffers, n \in Argcs : InvokeBegin(h, b, n)
    \/ \E rc \in ReturnCodes : InvokeEnd(rc)

Spec == Init /\ [][Next]_vars

\* --------------------------------------------- building a CommandSettings
\* A CommandSettings is created, configured by builder calls in any order and
\* then consumed by Command::new, which passes its strings to hook_command.
InitSettings ==
    /\ reg = [r \in Regs |-> NoReg]
    /\ heap = [a \in Addrs |-> NoState]
    /\ host = [h \in HookIds |-> NoHook]
    /\ unhookLog = <<>>
    /\ inv = NoInv
    /\ last = NoLast
    /\ cur = 0
    /\ heapTop = 0
    /\ hostTop = 0
    /\ settings \in {SettingsNew(n) : n \in Strings}
    /\ calls = <<>>
    /\ passed = NoDescriptor

Building == ~passed.given /\ Len(calls) < MaxCalls

Description(d) ==
    /\ Building
    /\ settings' = description(settings, d)
    /\ calls' = Append(calls, [op |-> "description", arg |-> d])
    /\ UNCHANGED <<passed, hookVars>>

AddArgument(a) ==
    /\ Building
    /\ settings' = add_argument(settings, a)
    /\ calls' = Append(calls, [op |-> "add_argument", arg |-> a])
    /\ UNCHANGED <<passed, hookVars>>

ArgumentsDescription(d) ==
    /\ Building
    /\ settings' = arguments_description(settings, d)
    /\ calls' = Append(calls, [op |-> "arguments_description", arg |-> d])
    /\ UNCHANGED <<passed, hookVars>>

AddCompletion(c) ==
    /\ Building
    /\ settings' = add_completion(settings, c)
    /\ calls' = Append(calls, [op |-> "add_completion", arg |-> c])
    /\ UNCHANGED <<passed, hookVars>>

\* Command::new(command_settings, ..) up to the call of hook_command
PassToHost ==
    /\ ~passed.given
    /\ passed' = HostDescriptor(settings)
    /\ UNCHANGED <<settings, calls, hookVars>>

NextSettings ==
    \/ \E d \in Strings : Description(d)
    \/ \E a \in Strings : AddArgument(a)
    \/ \E d \in Strings : ArgumentsDescription(d)
    \/ \E c \in Strings : AddCompletion(c)
    \/ PassToHost

SpecSettings == InitSettings /\ [][NextSettings]_vars

\* ------------------------------------------------------------ properties
\* The callback state call r allocated is on the heap.
Allocated(r) == \E a \in Addrs : heap[a].reg = r
\* The host holds a registration made by call r.
Registered(r) == \E h \in HookIds : host[h].reg = r
\* Call r returned Ok.
WasOk(r) == reg[r].phase \in {"ok", "dropping", "dropped"}
\* The unhook calls that carried the identity registered for call r.
UnhooksOf(r) == {i \in DOMAIN unhookLog : unhookLog[i].target = r}
\* The unhook calls made by call r or by the guard it returned.
UnhooksBy(r) == {i \in DOMAIN unhookLog : unhookLog[i].by = r}

\* C1: the guard of a call that returned Ok causes exactly one unhook call
\* carrying the identity the host returned for it: none while the guard is
\* alive, one once it is destroyed, made by the guard's own destruction, and
\* never a second one.
C1_ExactlyOneDeregistration ==
    \A r \in Regs :
        /\ \A i \in UnhooksOf(r) :
              unhookLog[i].by = r /\ unhookLog[i].ptr # NULL /\ WasOk(r)
        /\ Cardinality(UnhooksOf(r)) <= 1
        /\ reg[r].phase \in {"running", "ok"} => UnhooksOf(r) = {}
        /\ reg[r].phase = "dropped" =>
              Cardinality(UnhooksOf(r)) = 1 /\ UnhooksBy(r) = UnhooksOf(r)
C1_Witness ==
    \E r \in Regs :
        /\ reg[r].phase = "dropped"
        /\ Cardinality(UnhooksOf(r)) = 1
        /\ last # NoLast

\* C2: a call to which the host returned a null identity returns Err, and when
\* it has returned its callback state is freed: not on the heap, owned by no
\* guard, freed as often as allocated.
C2_NullIdentityFreesState ==
    \A r \in Regs :
        (reg[r].phase \in {"ok", "err", "dropping"} /\ reg[r].hook_ptr = NULL) =>
            /\ reg[r].phase = "err"
            /\ ~Allocated(r)
            /\ reg[r].data = "none"
            /\ reg[r].allocs = 1 /\ reg[r].frees = 1
C2_Witness ==
    \E r \in Regs :
        reg[r].phase = "err" /\ reg[r].called /\ reg[r].frees = 1

\* C3: the callback state of a guard is never freed while the guard's identity
\* is still registered with the host: when it is freed, the guard's unhook
\* call with the stored identity has been made and the host no longer holds
\* the registration.
C3_DeregisterBeforeFree ==
    \A r \in Regs :
        (WasOk(r) /\ ~Allocated(r)) =>
            /\ ~Registered(r)
            /\ UnhooksOf(r) # {}
            /\ UnhooksOf(r) = UnhooksBy(r)
C3_Witness ==
    \E r \in Regs :
        /\ reg[r].phase = "dropping"
        /\ UnhooksBy(r) # {}
        /\ ~Registered(r)
        /\ Allocated(r)

\* C4: while a trampoline invocation of a hook is in progress, the hook's
\* registration call has returned and its deregistration call has not begun.
C4_InvocationWithinRegistration ==
    inv # NoInv =>
        /\ reg[inv.reg].phase \in {"ok", "dropping"}
        /\ UnhooksBy(inv.reg) = {}

\* C5 as stated: in every state, the callback state of a call is allocated
\* exactly when a valid identity is registered for it.
C5_PairInEveryState ==
    \A r \in Regs : Allocated(r) <=> Registered(r)
\* C5 as amended: whenever neither the registration call nor the destruction of
\* its guard is in progress, the callback state of a call is allocated exactly
\* when a valid identity is registered for it.
C5_PairWhenQuiescent ==
    \A r \in Regs :
        reg[r].phase \notin {"running", "dropping"} =>
            (Allocated(r) <=> Registered(r))
C5_Witness ==
    /\ \E r \in Regs : reg[r].phase = "ok" /\ Allocated(r) /\ Registered(r)
    /\ \E r \in Regs : reg[r].phase = "dropped" /\ ~Allocated(r) /\ ~Registered(r)

\* C6: a call made off the main thread panics: it returns neither Ok nor Err,
\* allocates no callback state and never reaches the host's entry point.
C6_OffThreadIsFatal ==
    \A r \in Regs :
        reg[r].thread = "other" =>
            /\ reg[r].phase \in {"running", "panicked"}
            /\ reg[r].allocs = 0
            /\ ~reg[r].called
            /\ ~Allocated(r) /\ ~Registered(r)
C6_Witness ==
    /\ \E r \in Regs : reg[r].thread = "other" /\ reg[r].phase = "panicked"
    /\ \E r \in Regs : reg[r].thread = "main" /\ reg[r].phase = "ok"

\* C7: when the host invokes a hook's trampoline with the pointer it was given
\* at that registration, the callback called is the one passed to that same
\* registration, and the pointer dereferenced is the address of the callback
\* state owned by that hook's guard.
C7_TrampolineRoundTrip ==
    [][(inv = NoInv /\ inv' # NoInv) =>
          /\ inv'.callback = inv'.reg
          /\ reg[inv'.reg].phase = "ok"
          /\ reg[inv'.reg].data = "guard"
          /\ reg[inv'.reg].addr = inv'.pointer
          /\ heap[reg[inv'.reg].addr] = [reg |-> inv'.reg, callback |-> inv'.reg]
      ]_vars
C7_Witness ==
    /\ inv # NoInv
    /\ inv.reg = 2
    /\ \A r \in {1, 2} : reg[r].phase = "ok"

\* C8: the interceptor trampoline returns the host's eaten constant when the
\* callback returned Eat and the host's default constant when it returned
\* Continue.
C8_DispositionRelayed ==
    last.kind = "CommandRun" =>
        /\ last.cbret = "OkEat" => last.code = WEECHAT_RC_OK_EAT
        /\ last.cbret = "Ok" => last.code = WEECHAT_RC_OK
        /\ last.cbret \in ReturnCodes
C8_Witness ==
    last.kind = "CommandRun" /\ last.cbret = "OkEat" /\ last.code = WEECHAT_RC_OK_EAT

\* C9: the command trampoline returns the success code on every invocation.
C9_CommandAlwaysOk ==
    last.kind = "Command" => last.code = WEECHAT_RC_OK
C9_Witness ==
    /\ last.kind = "Command"
    /\ \E r \in Regs : reg[r].phase = "dropped"

\* C10: a call on the main thread returns Err exactly when the host returned a
\* null identity, whatever its text: it never panics, Err implies the host
\* was called and returned null, and Ok implies the host returned a non-null
\* identity which the guard holds.
C10_ErrIffNullIdentity ==
    \A r \in Regs :
        reg[r].thread = "main" =>
            /\ reg[r].phase # "panicked"
            /\ reg[r].phase = "err" => reg[r].called /\ reg[r].hook_ptr = NULL
            /\ reg[r].phase = "ok" =>
                  /\ reg[r].called
                  /\ reg[r].hook_ptr # NULL
                  /\ reg[r].hook = [built |-> TRUE, ptr |-> reg[r].hook_ptr]
            /\ (reg[r].phase = "running" /\ reg[r].pcIdx > Len(Program(reg[r].kind)))
                  => reg[r].hook_ptr # NULL
C10_Witness ==
    \E r \in Regs :
        /\ reg[r].phase = "running"
        /\ reg[r].text = <<NUL>>
        /\ reg[r].cstr = <<Placeholder>>
        /\ reg[r].pcIdx > Len(Program(reg[r].kind))
        /\ reg[r].hook_ptr # NULL

\* C12: while the host holds a registration, the callback state at the opaque
\* address it was given is allocated, belongs to that registration and is at
\* the address its owner holds: reclaiming it, moving it into the guard and
\* moving the guard neither free nor relocate it.
C12_NoDanglingOpaquePointer ==
    \A h \in HookIds :
        host[h] # NoHook =>
            /\ host[h].pointer \in Addrs
            /\ heap[host[h].pointer] =
                  [reg |-> host[h].reg, callback |-> host[h].reg]
            /\ reg[host[h].reg].addr = host[h].pointer
            /\ reg[host[h].reg].data \in {"leaked", "hook_data", "guard"}
C12_Witness ==
    /\ reg[1].phase = "dropped"
    /\ reg[2].phase = "ok"
    /\ reg[2].data = "guard"
    /\ reg[2].addr = 1
    /\ \E h \in HookIds : host[h].reg = 2 /\ host[h].pointer = 1

\* C13: a call allocates one callback state and it is freed at most once;
\* once the call has returned the state is reclaimed: owned by the guard and
\* still allocated after Ok, freed after Err, freed once the guard is
\* destroyed, and never left on the heap without an owner.
C13_FreedExactlyOnce ==
    \A r \in Regs :
        /\ reg[r].frees <= reg[r].allocs /\ reg[r].allocs <= 1
        /\ Allocated(r) <=> (reg[r].allocs = 1 /\ reg[r].frees = 0)
        /\ Cardinality({a \in Addrs : heap[a].reg = r}) <= 1
        /\ reg[r].phase \in {"ok", "err", "dropping", "dropped"} =>
              reg[r].allocs = 1 /\ reg[r].data \in {"guard", "none"}
        /\ reg[r].phase = "ok" =>
              reg[r].data = "guard" /\ heap[reg[r].addr].reg = r
        /\ reg[r].phase \in {"err", "dropped"} =>
              reg[r].frees = 1 /\ reg[r].data = "none"
C13_Witness ==
    /\ \E r \in Regs : reg[r].phase = "err" /\ reg[r].frees = 1
    /\ \E r \in Regs : reg[r].phase = "dropped" /\ reg[r].frees = 1

\* C14: unhook is called once for each destroyed guard that was returned as
\* Ok and for nothing else: a failed registration makes no unhook call, and
\* unhook is never called with a null identity.
C14_NoUnhookOnFailure ==
    /\ \A i \in DOMAIN unhookLog :
          unhookLog[i].ptr # NULL /\ WasOk(unhookLog[i].by)
    /\ Len(unhookLog) =
          Cardinality({r \in Regs : WasOk(r) /\ ~reg[r].hook.built})

\* C15: the steps of a trampoline invocation, its entry and its return, leave
\* the registrations, the heap, the host's table and the unhook calls as
\* they are; a hook whose guard is alive has, after them, its callback state
\* allocated and owned by the guard and its identity registered.
C15_InvocationBorrows ==
    [][(inv' # inv) =>
          LET i == IF inv = NoInv THEN inv' ELSE inv IN
          /\ reg' = reg /\ heap' = heap /\ host' = host
          /\ unhookLog' = unhookLog
          /\ reg[i.reg].phase = "ok" =>
                /\ reg'[i.reg].data = "guard"
                /\ heap'[reg'[i.reg].addr].reg = i.reg
                /\ host'[i.hook].reg = i.reg
      ]_vars
C15_Witness ==
    /\ last # NoLast
    /\ inv = NoInv
    /\ reg[1].phase = "ok" /\ reg[2].phase = "new"
    /\ Allocated(1) /\ Registered(1) /\ reg[1].data = "guard"

\* Guard r is alive and neither being built nor being destroyed.
Live(r) == reg[r].phase = "ok"
\* C16: live guards own distinct callback states and hold distinct identities,
\* each registered for its own call; and a step that is not the destruction
\* of guard r (the destruction of another guard, a registration that fails or
\* succeeds, an invocation) leaves r's identity registered, its callback state
\* allocated and the guard as it is, but for the place it is kept in.
C16_GuardsAreIndependent ==
    /\ [](\A r \in Regs :
            Live(r) =>
                /\ reg[r].hook.ptr \in HookIds
                /\ host[reg[r].hook.ptr].reg = r
                /\ reg[r].addr \in Addrs
                /\ heap[reg[r].addr].reg = r
                /\ \A q \in Regs \ {r} :
                      Live(q) => /\ reg[q].addr # reg[r].addr
                                 /\ reg[q].hook.ptr # reg[r].hook.ptr)
    /\ [][\A r \in Regs :
            (Live(r) /\ cur' # r) =>
                /\ [reg'[r] EXCEPT !.loc = reg[r].loc] = reg[r]
                /\ heap'[reg[r].addr] = heap[reg[r].addr]
                /\ host'[reg[r].hook.ptr] = host[reg[r].hook.ptr]
       ]_vars
C16_Witness ==
    /\ reg[1].phase = "dropped"
    /\ Live(2) /\ Allocated(2) /\ Registered(2)
    /\ reg[2].addr = 2
    /\ Len(unhookLog) = 1

\* The entries the builder calls named op added, in the order of the calls.
RECURSIVE Added(_, _)
Added(log, op) ==
    IF log = <<>> THEN <<>>
    ELSE IF log[Len(log)].op = op
         THEN Append(Added(SubSeq(log, 1, Len(log) - 1), op), log[Len(log)].arg)
         ELSE Added(SubSeq(log, 1, Len(log) - 1), op)
\* Entries written one after the other with "||" between them.
RECURSIVE WithBars(_)
WithBars(entries) ==
    IF entries = <<>> THEN <<>>
    ELSE IF Len(entries) = 1 THEN entries[1]
    ELSE WithBars(SubSeq(entries, 1, Len(entries) - 1))
             \o <<Bar, Bar>> \o entries[Len(entries)]

\* C11: the argument string and the completion string passed to the host are
\* the entries added by add_argument, respectively add_completion, in the
\* order they were added, with "||" between them (empty when none was added),
\* as C strings; calls for the other fields change neither.
C11_JoinedInOrder ==
    passed.given =>
        /\ passed.args = LossyCString(WithBars(Added(calls, "add_argument")))
        /\ passed.completion = LossyCString(WithBars(Added(calls, "add_completion")))
C11_Witness ==
    /\ passed.given
    /\ Len(Added(calls, "add_completion")) = 2
    /\ Len(Added(calls, "add_argument")) = 1
    /\ calls[1].op = "add_completion" /\ calls[2].op = "add_argument"
    /\ calls[1].arg # calls[3].arg

====
